---- MODULE Spec2Model ----
(***************************************************************************)
(* Model of html_to_pdf.py: the function html_to_pdf() and the script's     *)
(* entry point.  The program is sequential; its state is the control       *)
(* position, the locals of html_to_pdf, the exception in flight, the lines  *)
(* printed, the temporary files on disk and the calls made to the outside   *)
(* world (subprocess.run, import, weasyprint, tempfile, os).  Each outside  *)
(* call either returns or raises; which one is the environment's choice.    *)
(***************************************************************************)
EXTENDS Integers, Sequences, FiniteSets, TLC

VARIABLES pc, returncode, exc, f, script_path, files, output, log, exitStatus

vars == <<pc, returncode, exc, f, script_path, files, output, log, exitStatus>>

(* ---- bounds ---------------------------------------------------------- *)

\* exit statuses a child process may report are 0..MaxRc
MaxRc == 2
\* names tempfile may pick for the temporary script are 1..NumTempNames
NumTempNames == 2

ReturnCodes == 0..MaxRc
TempNames == 1..NumTempNames

\* exception classes an outside call may raise (both derive from Exception)
Exceptions == {"ImportError", "OSError"}

(* ---- constants of html_to_pdf ---------------------------------------- *)

html_file == "/Users/matvey/Dev/MusicVisualizer/OPTIMIZATION_ROADMAP.html"
pdf_file == "/Users/matvey/Dev/MusicVisualizer/OPTIMIZATION_ROADMAP.pdf"

\* argv of the probe, line 12
ProbeArgv == <<"which", "wkhtmltopdf">>

ToolArgvSwapped == <<"wkhtmltopdf", pdf_file, html_file>>
\* argv of the tool invocation, line 14
ToolArgv == <<"wkhtmltopdf", html_file, pdf_file>>

\* weasyprint.HTML(filename=html_file).write_pdf(pdf_file), line 23
RenderArgv == <<html_file, pdf_file>>

\* the f-string of lines 35-39, as its literal pieces around html_file
script == <<"open -a Safari \"", html_file, "\"", "sleep 3",
            "osascript -e 'tell application \"Safari\" to print the front document'">>

\* mode given to os.chmod, line 45
ExecMode == "0o755"

(* ---- printed lines: an f-string is the tuple of its pieces ------------ *)

MsgWk == <<"PDF created using wkhtmltopdf: ", pdf_file>>
MsgWeasy == <<"PDF created using WeasyPrint: ", pdf_file>>
MsgSafari == <<"Attempted to print via Safari - check your Downloads folder for the PDF">>
MsgFailed(e) == <<"All PDF conversion methods failed: ", e>>
MsgAlt == <<"\nAlternative solutions:">>
MsgHint1 == <<"1. Open the HTML file in a browser and use Print > Save as PDF">>
MsgHint2 == <<"2. Install pandoc: brew install pandoc">>
MsgHint3 == <<"3. Install wkhtmltopdf: brew install wkhtmltopdf">>
MsgHtml == <<"\nHTML file is available at: ", html_file>>

FailureReport(e) == <<MsgFailed(e), MsgAlt, MsgHint1, MsgHint2, MsgHint3, MsgHtml>>

(* ---- except clauses ---------------------------------------------------- *)

BareExceptOnlyOSError(e) == e = "OSError"
\* line 17, "except:" catches every exception
BareExcept(e) == TRUE

ExceptAnything(e) == TRUE
\* line 26, "except ImportError"
ExceptImportError(e) == e = "ImportError"

ExceptOnlyOSError(e) == e = "OSError"
\* line 51, "except Exception as e"
ExceptException(e) == e \in Exceptions

(* ---- the record of one outside call ----------------------------------- *)
\* fn: the callee; argv: its string arguments; tmp: the temporary file it is
\* given (0 when none); raised: the exception it raised or "none";
\* ret: the exit status it returned (-1 when it raised or returns none)
Call(fn, argv, tmp, raised, ret) ==
    [fn |-> fn, argv |-> argv, tmp |-> tmp, raised |-> raised, ret |-> ret]

Init ==
    /\ pc = "L12"
    /\ returncode = -1
    /\ exc = "none"
    /\ f = 0
    /\ script_path = 0
    /\ files = [n \in {} |-> [content |-> <<>>, mode |-> "0o600"]]
    /\ output = <<>>
    /\ log = <<>>
    /\ exitStatus = -1

(* ---- attempt A: lines 10-18 ------------------------------------------- *)

\* line 12: result = subprocess.run(['which', 'wkhtmltopdf'], capture_output=True)
Probe ==
    /\ pc = "L12"
    /\ \/ \E rc \in ReturnCodes :
            /\ log' = Append(log, Call("subprocess.run", ProbeArgv, 0, "none", rc))
            /\ returncode' = rc
            /\ pc' = "L13"
            /\ exc' = exc
       \/ \E e \in Exceptions :
            /\ log' = Append(log, Call("subprocess.run", ProbeArgv, 0, e, -1))
            /\ exc' = e
            /\ pc' = "L17"
            /\ returncode' = returncode
    /\ UNCHANGED <<f, script_path, files, output, exitStatus>>

\* line 13: if result.returncode == 0
CheckProbe ==
    /\ pc = "L13"
    /\ pc' = IF returncode = 0 THEN "L14" ELSE "L22"
    /\ UNCHANGED <<returncode, exc, f, script_path, files, output, log, exitStatus>>

InvokeToolChecked ==
    /\ pc = "L14"
    /\ \/ /\ log' = Append(log, Call("subprocess.run", ToolArgv, 0, "none", 0))
          /\ pc' = "L15"
          /\ exc' = exc
       \/ \E rc \in ReturnCodes \ {0} :
            /\ log' = Append(log, Call("subprocess.run", ToolArgv, 0, "none", rc))
            /\ exc' = "OSError"
            /\ pc' = "L17"
       \/ \E e \in Exceptions :
            /\ log' = Append(log, Call("subprocess.run", ToolArgv, 0, e, -1))
            /\ exc' = e
            /\ pc' = "L17"
    /\ UNCHANGED <<returncode, f, script_path, files, output, exitStatus>>

\* line 14: subprocess.run(['wkhtmltopdf', html_file, pdf_file]); the result is dropped
InvokeTool ==
    /\ pc = "L14"
    /\ \/ \E rc \in ReturnCodes :
            /\ log' = Append(log, Call("subprocess.run", ToolArgv, 0, "none", rc))
            /\ pc' = "L15"
            /\ exc' = exc
       \/ \E e \in Exceptions :
            /\ log' = Append(log, Call("subprocess.run", ToolArgv, 0, e, -1))
            /\ exc' = e
            /\ pc' = "L17"
    /\ UNCHANGED <<returncode, f, script_path, files, output, exitStatus>>

\* lines 15-16: print(...); return
PrintWk ==
    /\ pc = "L15"
    /\ output' = Append(output, MsgWk)
    /\ pc' = "return"
    /\ UNCHANGED <<returncode, exc, f, script_path, files, log, exitStatus>>

\* lines 17-18: except: pass
ExceptA ==
    /\ pc = "L17"
    /\ IF BareExcept(exc)
         THEN /\ exc' = "none"
              /\ pc' = "L22"
         ELSE /\ exc' = exc
              /\ pc' = "uncaught"
    /\ UNCHANGED <<returncode, f, script_path, files, output, log, exitStatus>>

(* ---- attempt B: lines 20-27 ------------------------------------------- *)

\* line 22: import weasyprint
ImportWeasyprint ==
    /\ pc = "L22"
    /\ \/ /\ log' = Append(log, Call("import", <<"weasyprint">>, 0, "none", -1))
          /\ pc' = "L23"
          /\ exc' = exc
       \/ \E e \in Exceptions :
            /\ log' = Append(log, Call("import", <<"weasyprint">>, 0, e, -1))
            /\ exc' = e
            /\ pc' = "L26"
    /\ UNCHANGED <<returncode, f, script_path, files, output, exitStatus>>

\* line 23: weasyprint.HTML(filename=html_file).write_pdf(pdf_file)
Render ==
    /\ pc = "L23"
    /\ \/ /\ log' = Append(log, Call("write_pdf", RenderArgv, 0, "none", -1))
          /\ pc' = "L24"
          /\ exc' = exc
       \/ \E e \in Exceptions :
            /\ log' = Append(log, Call("write_pdf", RenderArgv, 0, e, -1))
            /\ exc' = e
            /\ pc' = "L26"
    /\ UNCHANGED <<returncode, f, script_path, files, output, exitStatus>>

\* lines 24-25: print(...); return
PrintWeasy ==
    /\ pc = "L24"
    /\ output' = Append(output, MsgWeasy)
    /\ pc' = "return"
    /\ UNCHANGED <<returncode, exc, f, script_path, files, log, exitStatus>>

\* lines 26-27: except ImportError: pass; any other exception leaves the function
ExceptB ==
    /\ pc = "L26"
    /\ IF ExceptImportError(exc)
         THEN /\ exc' = "none"
              /\ pc' = "L31"
         ELSE /\ exc' = exc
              /\ pc' = "uncaught"
    /\ UNCHANGED <<returncode, f, script_path, files, output, log, exitStatus>>

(* ---- attempt C: lines 29-57 ------------------------------------------- *)

\* lines 31-39: the imports of tempfile and shutil and the script text
BuildScript ==
    /\ pc = "L31"
    /\ pc' = "L41"
    /\ UNCHANGED <<returncode, exc, f, script_path, files, output, log, exitStatus>>

\* line 41: tempfile.NamedTemporaryFile(mode='w', suffix='.sh', delete=False)
\* creates an empty file under a name no file has yet
CreateTemp ==
    /\ pc = "L41"
    /\ \/ \E n \in TempNames \ DOMAIN files :
            /\ files' = [m \in DOMAIN files \cup {n} |->
                           IF m = n THEN [content |-> <<>>, mode |-> "0o600"]
                                    ELSE files[m]]
            /\ f' = n
            /\ log' = Append(log, Call("NamedTemporaryFile", <<".sh">>, n, "none", -1))
            /\ pc' = "L42"
            /\ exc' = exc
       \/ \E e \in Exceptions :
            /\ log' = Append(log, Call("NamedTemporaryFile", <<".sh">>, 0, e, -1))
            /\ exc' = e
            /\ pc' = "L51"
            /\ UNCHANGED <<f, files>>
    /\ UNCHANGED <<returncode, script_path, output, exitStatus>>

\* lines 42-43: f.write(script); script_path = f.name; leaving the with block
\* closes f and, because delete=False, keeps the file
WriteScript ==
    /\ pc = "L42"
    /\ \/ /\ files' = [files EXCEPT ![f].content = script]
          /\ script_path' = f
          /\ log' = Append(log, Call("write", <<>>, f, "none", -1))
          /\ pc' = "L45"
          /\ exc' = exc
       \/ \E e \in Exceptions :
            /\ log' = Append(log, Call("write", <<>>, f, e, -1))
            /\ exc' = e
            /\ pc' = "L51"
            /\ UNCHANGED <<script_path, files>>
    /\ UNCHANGED <<returncode, f, output, exitStatus>>

\* line 45: os.chmod(script_path, 0o755)
Chmod ==
    /\ pc = "L45"
    /\ \/ /\ files' = [files EXCEPT ![script_path].mode = ExecMode]
          /\ log' = Append(log, Call("os.chmod", <<ExecMode>>, script_path, "none", -1))
          /\ pc' = "L46"
          /\ exc' = exc
       \/ \E e \in Exceptions :
            /\ log' = Append(log, Call("os.chmod", <<ExecMode>>, script_path, e, -1))
            /\ exc' = e
            /\ pc' = "L51"
            /\ files' = files
    /\ UNCHANGED <<returncode, f, script_path, output, exitStatus>>

\* line 46: subprocess.run([script_path]); the result is dropped.  The script
\* can only report an exit status if the file exists and is executable.
RunScript ==
    /\ pc = "L46"
    /\ \/ \E rc \in ReturnCodes :
            /\ script_path \in DOMAIN files
            /\ files[script_path].mode = ExecMode
            /\ log' = Append(log, Call("subprocess.run", <<>>, script_path, "none", rc))
            /\ pc' = "L47"
            /\ exc' = exc
       \/ \E e \in Exceptions :
            /\ log' = Append(log, Call("subprocess.run", <<>>, script_path, e, -1))
            /\ exc' = e
            /\ pc' = "L51"
    /\ UNCHANGED <<returncode, f, script_path, files, output, exitStatus>>

UnlinkSkipped ==
    /\ pc = "L47"
    /\ pc' = "L49"
    /\ UNCHANGED <<returncode, exc, f, script_path, files, output, log, exitStatus>>

\* line 47: os.unlink(script_path)
Unlink ==
    /\ pc = "L47"
    /\ \/ /\ files' = [m \in DOMAIN files \ {script_path} |-> files[m]]
          /\ log' = Append(log, Call("os.unlink", <<>>, script_path, "none", -1))
          /\ pc' = "L49"
          /\ exc' = exc
       \/ \E e \in Exceptions :
            /\ log' = Append(log, Call("os.unlink", <<>>, script_path, e, -1))
            /\ exc' = e
            /\ pc' = "L51"
            /\ files' = files
    /\ UNCHANGED <<returncode, f, script_path, output, exitStatus>>

\* line 49: print(...); the function then returns
PrintSafari ==
    /\ pc = "L49"
    /\ output' = Append(output, MsgSafari)
    /\ pc' = "return"
    /\ UNCHANGED <<returncode, exc, f, script_path, files, log, exitStatus>>

\* lines 51-57: except Exception as e: the six prints
ExceptC ==
    /\ pc = "L51"
    /\ IF ExceptException(exc)
         THEN /\ output' = output \o FailureReport(exc)
              /\ exc' = "none"
              /\ pc' = "return"
         ELSE /\ output' = output
              /\ exc' = exc
              /\ pc' = "uncaught"
    /\ UNCHANGED <<returncode, f, script_path, files, log, exitStatus>>

(* ---- the entry point: lines 59-60 -------------------------------------- *)

\* html_to_pdf() returned: the interpreter exits with status 0
ExitNormally ==
    /\ pc = "return"
    /\ exitStatus' = 0
    /\ pc' = "exited"
    /\ UNCHANGED <<returncode, exc, f, script_path, files, output, log>>

\* an exception left html_to_pdf(): the interpreter exits with status 1
ExitUncaught ==
    /\ pc = "uncaught"
    /\ exitStatus' = 1
    /\ pc' = "exited"
    /\ UNCHANGED <<returncode, exc, f, script_path, files, output, log>>

Next ==
    \/ Probe \/ CheckProbe \/ InvokeTool \/ PrintWk \/ ExceptA
    \/ ImportWeasyprint \/ Render \/ PrintWeasy \/ ExceptB
    \/ BuildScript \/ CreateTemp \/ WriteScript \/ Chmod \/ RunScript \/ Unlink
    \/ PrintSafari \/ ExceptC
    \/ ExitNormally \/ ExitUncaught

Spec == Init /\ [][Next]_vars

(* ---- reading the record of calls ---------------------------------------- *)

Returned(i) == log[i].raised = "none"
Raised(i) == log[i].raised # "none"

ProbeCalls == {i \in DOMAIN log : log[i].fn = "subprocess.run" /\ log[i].argv = <<"which", "wkhtmltopdf">>}
ToolCalls == {i \in DOMAIN log : /\ log[i].fn = "subprocess.run"
                                 /\ Len(log[i].argv) > 0
                                 /\ log[i].argv[1] = "wkhtmltopdf"}
ImportCalls == {i \in DOMAIN log : log[i].fn = "import"}
RenderCalls == {i \in DOMAIN log : log[i].fn = "write_pdf"}
CreateCalls == {i \in DOMAIN log : log[i].fn = "NamedTemporaryFile"}
FallbackCalls == {i \in DOMAIN log :
                    log[i].fn \in {"NamedTemporaryFile", "write", "os.chmod", "os.unlink"}
                    \/ (log[i].fn = "subprocess.run" /\ log[i].tmp # 0)}
ScriptRuns == {i \in DOMAIN log : log[i].fn = "subprocess.run" /\ log[i].tmp # 0}

\* the probe reported the tool available / unavailable
ProbeAvailable == \E i \in ProbeCalls : Returned(i) /\ log[i].ret = 0
ProbeUnavailable == \E i \in ProbeCalls : Returned(i) /\ log[i].ret # 0

\* control is, or has been, inside attempt B / attempt C
EnteredB == pc \in {"L22", "L23", "L24", "L26"} \/ ImportCalls # {}
EnteredC == pc \in {"L31", "L41"} \/ FallbackCalls # {}

Done == pc = "exited"

\* the four lifecycle steps of the temporary script, in the order they were made
IsLifecycleStep(c) ==
    \/ c.fn \in {"NamedTemporaryFile", "os.chmod", "os.unlink"}
    \/ (c.fn = "subprocess.run" /\ c.tmp # 0)
LifecycleSteps == SelectSeq(log, IsLifecycleStep)

Contains(out, line) == \E i \in DOMAIN out : out[i] = line

(* ---- C1 ------------------------------------------------------------------ *)

\* C1: every run, whichever attempt executes and whatever its outcome
\* (a fault of the render call or of a fallback step included), ends with
\* exit status 0.
C1_AlwaysExitsZero == Done => exitStatus = 0

(* ---- C2 ------------------------------------------------------------------ *)

\* C2 as stated: if the probe reports the tool available, the tool is
\* invoked exactly once with the two fixed paths and neither attempt B nor
\* attempt C executes, for every outcome of the invocation, a raise included.
C2_Original ==
    ProbeAvailable =>
        /\ Cardinality(ToolCalls) <= 1
        /\ \A i \in ToolCalls : log[i].argv = <<"wkhtmltopdf", html_file, pdf_file>>
        /\ Done => Cardinality(ToolCalls) = 1
        /\ ~EnteredB
        /\ ~EnteredC

\* C2 amended: if the probe reports the tool available, the tool is invoked
\* exactly once with the two fixed paths; when that invocation returns (with
\* any exit status) neither attempt B nor attempt C executes, and when it
\* raises the exception is swallowed and attempt B is the next to execute.
C2_ToolInvokedOnce ==
    ProbeAvailable =>
        /\ Cardinality(ToolCalls) <= 1
        /\ \A i \in ToolCalls : log[i].argv = <<"wkhtmltopdf", html_file, pdf_file>>
        /\ Done => Cardinality(ToolCalls) = 1
        /\ \A i \in ToolCalls : Returned(i) => ~EnteredB /\ ~EnteredC
        /\ \A i \in ToolCalls : Raised(i) /\ Done => ImportCalls # {}

C2_Witness ==
    /\ Done
    /\ ProbeAvailable
    /\ \E i \in ToolCalls : Returned(i) /\ log[i].ret # 0

(* ---- C3 ------------------------------------------------------------------ *)

\* C3: when the fallback runs and the script reports an exit status (zero or
\* not), the run has made the four lifecycle steps exactly once each and in
\* the order create, chmod 0o755, execute, delete, all on the one temporary
\* file, and a delete that returned has removed the file.
C3_Lifecycle ==
    (Done /\ \E i \in ScriptRuns : Returned(i)) =>
        /\ Len(LifecycleSteps) = 4
        /\ LifecycleSteps[1].fn = "NamedTemporaryFile"
        /\ LifecycleSteps[2].fn = "os.chmod"
        /\ LifecycleSteps[2].argv = <<"0o755">>
        /\ LifecycleSteps[3].fn = "subprocess.run"
        /\ LifecycleSteps[4].fn = "os.unlink"
        /\ \A k \in 1..4 : LifecycleSteps[k].tmp = LifecycleSteps[1].tmp
        /\ LifecycleSteps[4].raised = "none" => LifecycleSteps[1].tmp \notin DOMAIN files

C3_Witness ==
    /\ Done
    /\ ~ProbeAvailable
    /\ \E i \in ImportCalls : log[i].raised = "ImportError"
    /\ \E i \in ScriptRuns : Returned(i) /\ log[i].ret # 0
    /\ files = << >>

(* ---- C4 ------------------------------------------------------------------ *)

\* C4: once the fallback has created the temporary script, no run ends with
\* that file still present, the runs where chmod or the execution raises
\* included.
C4_TempFileDeleted ==
    (Done /\ \E i \in CreateCalls : Returned(i)) => DOMAIN files = {}

(* ---- C5 ------------------------------------------------------------------ *)

\* C5: if the probe reports the tool unavailable and weasyprint is
\* importable, the render call is made exactly once with the fixed HTML path
\* as source and the fixed PDF path as target, and the fallback is not
\* executed in that run.
C5_RenderOnceNoFallback ==
    (ProbeUnavailable /\ \E i \in ImportCalls : Returned(i)) =>
        /\ Cardinality(RenderCalls) <= 1
        /\ \A i \in RenderCalls : log[i].argv = <<html_file, pdf_file>>
        /\ Done => Cardinality(RenderCalls) = 1
        /\ ~EnteredC

(* ---- C6 ------------------------------------------------------------------ *)

\* C6: when a step of the fallback raises, the run prints "All PDF conversion
\* methods failed" with the error, the three numbered hints and the HTML
\* path, and still ends normally.
C6_FailureReported ==
    \A i \in FallbackCalls :
        (Done /\ Raised(i)) =>
            /\ Contains(output, <<"All PDF conversion methods failed: ", log[i].raised>>)
            /\ Contains(output, <<"1. Open the HTML file in a browser and use Print > Save as PDF">>)
            /\ Contains(output, <<"2. Install pandoc: brew install pandoc">>)
            /\ Contains(output, <<"3. Install wkhtmltopdf: brew install wkhtmltopdf">>)
            /\ Contains(output, <<"\nHTML file is available at: ",
                                  "/Users/matvey/Dev/MusicVisualizer/OPTIMIZATION_ROADMAP.html">>)
            /\ exitStatus = 0

C6_Witness ==
    /\ Done
    /\ \E i \in ScriptRuns : log[i].raised = "ImportError"
    /\ Len(output) = 6

(* ---- C7 ------------------------------------------------------------------ *)

\* C7: when the probe succeeds and the tool invocation returns, the run
\* prints the wkhtmltopdf success message and returns at once, with exit
\* status 0 and no further attempt, whatever exit status the tool reported.
C7_ToolStatusIgnored ==
    \A i \in ToolCalls :
        Returned(i) =>
            /\ i = Len(log)
            /\ pc \in {"L15", "return", "exited"}
            /\ pc # "L15" => output = << <<"PDF created using wkhtmltopdf: ", pdf_file>> >>
            /\ Done => exitStatus = 0

C7_Witness ==
    /\ Done
    /\ \E i \in ToolCalls : Returned(i) /\ log[i].ret # 0
    /\ output = << <<"PDF created using wkhtmltopdf: ", pdf_file>> >>

(* ---- C8 ------------------------------------------------------------------ *)

\* C8: every run follows Start, Try A, then Done or Try B, then Done or
\* Try C, then Done: each attempt is entered at most once and in that order,
\* B only after A missed, C only after B missed, and a run that has ended
\* has printed at least one message.
C8_LinearAlwaysPrints ==
    /\ Cardinality(ProbeCalls) <= 1
    /\ Cardinality(ImportCalls) <= 1
    /\ Cardinality(CreateCalls) <= 1
    /\ \A i \in ProbeCalls \cup ToolCalls : \A j \in ImportCalls \cup FallbackCalls : i < j
    /\ \A i \in ImportCalls \cup RenderCalls : \A j \in FallbackCalls : i < j
    /\ EnteredB => ~Contains(output, <<"PDF created using wkhtmltopdf: ", pdf_file>>)
    /\ EnteredC => ~Contains(output, <<"PDF created using WeasyPrint: ", pdf_file>>)
    /\ Done => Len(output) >= 1

(* ---- C9 ------------------------------------------------------------------ *)

C10_ToolFaultSwallowed ==
    /\ \A i \in ProbeCalls \cup ToolCalls :
           Raised(i) =>
               /\ pc = "L17" \/ EnteredB
               /\ pc \in {"L17", "L22"} => output = <<>>
               /\ Done => ImportCalls # {}
    /\ Contains(output, <<"PDF created using wkhtmltopdf: ", pdf_file>>) =>
           \E i \in ToolCalls : Returned(i)

\* a run that invoked the tool and afterwards executed the fallback
C10_Witness ==
    /\ Done
    /\ \E i \in ToolCalls : log[i].raised = "ImportError"
    /\ \E i \in ScriptRuns : Returned(i)

====
